---- MODULE Spec2Model ----
(***************************************************************************)
(* Model of the `delete` subcommand of go-tweet-cleaner (cmd/delete.go).   *)
(* One run of runDelete is a sequential state machine: the extracted tweet *)
(* list is sorted, cut by offset and limit, displayed, confirmed, and then *)
(* the deletion loop checks and deletes the records one by one.            *)
(* The remote API's answers and the line typed on stdin are inputs chosen  *)
(* nondeterministically.  The archive reader (lines 101-189) is taken as   *)
(* the producer of the initial tweet list.                                 *)
(***************************************************************************)
EXTENDS Integers, Sequences, FiniteSets, TLC

(* ------------------------------ bounds --------------------------------- *)
\* longest archive of the small, exhaustively enumerated runs
MaxSmall == 2
\* length of the single long archive (reaches the rate-limit pause)
MaxLong == 51
\* longest stdin content offered to the confirmation prompt
MaxInputLen == 2
\* longest archive of the sort comparison
MaxSortLen == 3

(* -------------------------- program constants -------------------------- *)
rateLimit == 50
\* help text of --limit: "maximum 100"
MaxLimit == 100
\* the instant of time.Time{}, returned by time.Parse on error
ZeroTime == 0

(* ------------------------------ variables ------------------------------ *)
VARIABLES
    tweets,          \* the []TwitterArchiveTweet slice of runDelete
    sortOrder,       \* --sort
    offset,          \* --offset
    limit,           \* --limit
    dryRun,          \* --dry-run
    pc,              \* position of runDelete
    response,        \* the confirmation line (raw, then normalised)
    i,               \* loop index
    success, failures, alreadyDeleted,
    checkStatus,     \* outcome of checkTweetExists' request in this iteration
    deleteStatus,    \* outcome of the DELETE request in this iteration
    extracted,       \* len(tweets) as printed at line 196
    displayed,       \* number of rows printed by the display loop
    checks,          \* GET requests sent so far
    deletes,         \* DELETE requests sent so far
    ratePauses,      \* executions of time.Sleep(rateLimitWindow)
    pausedBefore,    \* index of the record the last such pause preceded
    courtesySlept,   \* the 200ms sleep ran since the last DELETE request
    throttleSlept,   \* the 15 minute sleep after a 429 ran in this iteration
    sortRuns         \* the archive sorted under "oldest" and under "newest"

vars == <<tweets, sortOrder, offset, limit, dryRun, pc, response, i,
          success, failures, alreadyDeleted, checkStatus, deleteStatus,
          extracted, displayed, checks, deletes,
          ratePauses, pausedBefore, courtesySlept, throttleSlept, sortRuns>>

(* ------------------------------ helpers -------------------------------- *)
Reverse(s) == [k \in 1..Len(s) |-> s[Len(s) + 1 - k]]

Remove(s, k) == [j \in 1..(Len(s) - 1) |-> IF j < k THEN s[j] ELSE s[j + 1]]

RECURSIVE SeqsUpTo(_, _)
SeqsUpTo(S, n) ==
    IF n = 0 THEN {<<>>}
    ELSE LET shorter == SeqsUpTo(S, n - 1)
         IN shorter \cup {Append(s, x) : s \in {t \in shorter : Len(t) = n - 1}, x \in S}

(* --------------------------- created_at strings ------------------------ *)
\* A created_at string is <<wellFormed, clock, zone>>: whether it matches the
\* layout "Mon Jan 02 15:04:05 -0700 2006", its wall-clock reading and its
\* zone offset.
BadTime == <<FALSE, 0, 0>>

\* time.Parse(layout, s) with the error discarded: the instant, or the zero
\* time when the string does not match the layout.
ParseTime(s) == IF s[1] THEN s[2] - s[3] ELSE ZeroTime

Parses(s) == s[1]

Before(a, b) == ParseTime(a.createdAt) < ParseTime(b.createdAt)

AfterFlipped(a, b) == ParseTime(a.createdAt) < ParseTime(b.createdAt)

After(a, b) == ParseTime(a.createdAt) > ParseTime(b.createdAt)

\* the less function handed to sort.Slice
Less(order, a, b) ==
    IF order = "oldest" THEN Before(a, b) ELSE After(a, b)

\* sort.Slice is not stable: every arrangement ordered by less is a possible
\* result.
RECURSIVE SortSlice(_, _)
SortSlice(s, order) ==
    IF s = <<>> THEN {<<>>}
    ELSE UNION { {<<s[k]>> \o r : r \in SortSlice(Remove(s, k), order)} :
                 k \in {k \in DOMAIN s :
                          \A j \in DOMAIN s : ~Less(order, s[j], s[k])} }

\* the switch on sortOrder
SortOutcomes(s, order) ==
    IF order \in {"oldest", "newest"} THEN SortSlice(s, order) ELSE {s}

(* ------------------------------ selection ------------------------------ *)
\* the early return of the offset check
OffsetOutOfRange(lim, off, n) == lim > 0 /\ off > 0 /\ off >= n

\* tweets after "apply offset first, then apply limit"
Selection(s, lim, off) ==
    IF lim > 0
    THEN LET skipped == IF off > 0 THEN SubSeq(s, off + 1, Len(s)) ELSE s
         IN IF Len(skipped) > lim THEN SubSeq(skipped, 1, lim) ELSE skipped
    ELSE s

(* ----------------------------- confirmation ---------------------------- *)
InputChars == {"y", "Y", "n", " ", "\n"}

IsSpace(c) == c \in {" ", "\n", "\t", "\r"}

LowerChar(c) == IF c = "Y" THEN "y" ELSE IF c = "N" THEN "n" ELSE c

\* reader.ReadString('\n'): up to and including the first newline, or all of
\* the input when it has none (the error is discarded)
ReadString(in) ==
    IF \E k \in DOMAIN in : in[k] = "\n"
    THEN SubSeq(in, 1, CHOOSE k \in DOMAIN in :
                          in[k] = "\n" /\ \A j \in 1..(k - 1) : in[j] # "\n")
    ELSE in

ToLower(s) == [k \in DOMAIN s |-> LowerChar(s[k])]

RECURSIVE TrimLeft(_)
TrimLeft(s) == IF s # <<>> /\ IsSpace(s[1]) THEN TrimLeft(Tail(s)) ELSE s

RECURSIVE TrimRight(_)
TrimRight(s) ==
    IF s # <<>> /\ IsSpace(s[Len(s)]) THEN TrimRight(SubSeq(s, 1, Len(s) - 1)) ELSE s

TrimSpace(s) == TrimRight(TrimLeft(s))

NormaliseNoTrim(s) == ToLower(s)

Normalise(s) == TrimSpace(ToLower(s))

\* the line without its terminator
Chomp(s) == IF s # <<>> /\ s[Len(s)] = "\n" THEN SubSeq(s, 1, Len(s) - 1) ELSE s

AfterDisplayAlwaysAsk(dry) == "confirm"

\* if !dryRun { prompt } else { return }
AfterDisplay(dry) == IF dry THEN "dryRunDone" ELSE "confirm"

(* ------------------------------ deletion ------------------------------- *)
\* outcomes of client.Do: an HTTP status, or "err" for a transport failure
Outcomes == {"200", "404", "429", "500", "err"}

RateLimitReachedAtZero(idx) == idx % rateLimit = 0

\* i > 0 && i%rateLimit == 0
RateLimitReached(idx) == idx > 0 /\ idx % rateLimit = 0

TweetExistsAnyResponse(outcome) == outcome \notin {"err", "noreq"}

\* the value checkTweetExists returns
TweetExists(outcome) == outcome = "200"

\* http.NewRequest fails only for an identifier that forms no URL; id 0
\* stands for such an identifier
ValidID(id) == id # 0

DeleteSucceeded(outcome) == outcome = "200"

(* ------------------------------- inputs -------------------------------- *)
T1 == <<TRUE, 1, 0>>
T2 == <<TRUE, 2, 0>>
\* another spelling of the instant of T1
T1z == <<TRUE, 2, 1>>

SmallTweets ==
    { [id |-> 1, createdAt |-> T1], [id |-> 2, createdAt |-> T2],
      [id |-> 3, createdAt |-> T1z], [id |-> 0, createdAt |-> BadTime] }

SmallArchives == SeqsUpTo(SmallTweets, MaxSmall)

LongArchive == [k \in 1..MaxLong |-> [id |-> k, createdAt |-> <<TRUE, k, 0>>]]

\* an archive one record longer than the documented maximum of --limit
OverLimitArchive ==
    [k \in 1..(MaxLimit + 1) |-> [id |-> k, createdAt |-> <<TRUE, k, 0>>]]

SortOrders == {"newest", "oldest", "original"}
Limits == {0, 1, 2, MaxLimit + 1}
Offsets == {0, 1, 2, 3}

StdinContents == SeqsUpTo(InputChars, MaxInputLen)

SortArchives == SeqsUpTo(SmallTweets, MaxSortLen)

NoRuns == [oldest |-> <<>>, newest |-> <<>>, done |-> {}]

(* -------------------------------- Init --------------------------------- *)
InitLocals ==
    /\ pc = "extracted"
    /\ response = <<>>
    /\ i = 0
    /\ success = 0 /\ failures = 0 /\ alreadyDeleted = 0
    /\ checkStatus = "none" /\ deleteStatus = "none"
    /\ extracted = Len(tweets)
    /\ displayed = 0
    /\ checks = 0 /\ deletes = 0
    /\ ratePauses = 0 /\ pausedBefore = -1
    /\ courtesySlept = FALSE
    /\ throttleSlept = FALSE

Init ==
    /\ \/ /\ tweets \in SmallArchives
          /\ sortOrder \in SortOrders
          /\ offset \in Offsets
          /\ limit \in Limits
          /\ dryRun \in BOOLEAN
       \/ /\ tweets = LongArchive
          /\ sortOrder = "newest"
          /\ offset = 0
          /\ limit = MaxLimit
          /\ dryRun = FALSE
       \/ /\ tweets = OverLimitArchive
          /\ sortOrder = "original"
          /\ offset = 0
          /\ limit = MaxLimit + 1
          /\ dryRun = TRUE
    /\ InitLocals
    /\ sortRuns = NoRuns

(* ------------------------------- actions ------------------------------- *)
\* if len(tweets) == 0 { "No tweets found"; return }
CheckExtracted ==
    /\ pc = "extracted"
    /\ pc' = IF Len(tweets) = 0 THEN "noTweets" ELSE "sort"
    /\ UNCHANGED <<tweets, sortOrder, offset, limit, dryRun, response, i,
                   success, failures, alreadyDeleted, checkStatus, deleteStatus,
                   extracted, displayed, checks, deletes,
                   ratePauses, pausedBefore, courtesySlept, throttleSlept, sortRuns>>

\* switch sortOrder { ... }
SortTweets ==
    /\ pc = "sort"
    /\ tweets' \in SortOutcomes(tweets, sortOrder)
    /\ pc' = "select"
    /\ UNCHANGED <<sortOrder, offset, limit, dryRun, response, i,
                   success, failures, alreadyDeleted, checkStatus, deleteStatus,
                   extracted, displayed, checks, deletes,
                   ratePauses, pausedBefore, courtesySlept, throttleSlept, sortRuns>>

\* if limit > 0 { offset, then limit }
SelectTweets ==
    /\ pc = "select"
    /\ IF OffsetOutOfRange(limit, offset, Len(tweets))
       THEN /\ pc' = "rangeError"
            /\ UNCHANGED tweets
       ELSE /\ pc' = "display"
            /\ tweets' = Selection(tweets, limit, offset)
    /\ UNCHANGED <<sortOrder, offset, limit, dryRun, response, i,
                   success, failures, alreadyDeleted, checkStatus, deleteStatus,
                   extracted, displayed, checks, deletes,
                   ratePauses, pausedBefore, courtesySlept, throttleSlept, sortRuns>>

\* the display loop, then the branch on dryRun
DisplayTweets ==
    /\ pc = "display"
    /\ displayed' = Len(tweets)
    /\ pc' = AfterDisplay(dryRun)
    /\ UNCHANGED <<tweets, sortOrder, offset, limit, dryRun, response, i,
                   success, failures, alreadyDeleted, checkStatus, deleteStatus,
                   extracted, checks, deletes,
                   ratePauses, pausedBefore, courtesySlept, throttleSlept, sortRuns>>

\* response, _ := reader.ReadString('\n')
ReadConfirmation ==
    /\ pc = "confirm"
    /\ \E in \in StdinContents : response' = ReadString(in)
    /\ pc' = "decide"
    /\ UNCHANGED <<tweets, sortOrder, offset, limit, dryRun, i,
                   success, failures, alreadyDeleted, checkStatus, deleteStatus,
                   extracted, displayed, checks, deletes,
                   ratePauses, pausedBefore, courtesySlept, throttleSlept, sortRuns>>

\* response = TrimSpace(ToLower(response)); if response != "y" { return }
Decide ==
    /\ pc = "decide"
    /\ response' = Normalise(response)
    /\ pc' = IF response' = <<"y">> THEN "loop" ELSE "cancelled"
    /\ UNCHANGED <<tweets, sortOrder, offset, limit, dryRun, i,
                   success, failures, alreadyDeleted, checkStatus, deleteStatus,
                   extracted, displayed, checks, deletes,
                   ratePauses, pausedBefore, courtesySlept, throttleSlept, sortRuns>>

\* top of "for i, tweet := range tweets": loop exit, or the rate-limit pause
LoopHead ==
    /\ pc = "loop"
    /\ IF i >= Len(tweets)
       THEN /\ pc' = "done"
            /\ UNCHANGED <<ratePauses, pausedBefore>>
       ELSE /\ pc' = "check"
            /\ IF RateLimitReached(i)
               THEN ratePauses' = ratePauses + 1 /\ pausedBefore' = i
               ELSE UNCHANGED <<ratePauses, pausedBefore>>
    /\ UNCHANGED <<tweets, sortOrder, offset, limit, dryRun, response, i,
                   success, failures, alreadyDeleted, checkStatus, deleteStatus,
                   extracted, displayed, checks, deletes, courtesySlept,
                   throttleSlept, sortRuns>>

\* if !checkTweetExists(httpClient, tweet.ID) { alreadyDeleted++; continue }
CheckTweet ==
    /\ pc = "check"
    /\ IF ValidID(tweets[i + 1].id)
       THEN /\ checkStatus' \in Outcomes
            /\ checks' = checks + 1
       ELSE /\ checkStatus' = "noreq"
            /\ UNCHANGED checks
    /\ IF TweetExists(checkStatus')
       THEN /\ pc' = "delete"
            /\ UNCHANGED alreadyDeleted
       ELSE /\ pc' = "next"
            /\ alreadyDeleted' = alreadyDeleted + 1
    /\ UNCHANGED <<tweets, sortOrder, offset, limit, dryRun, response, i,
                   success, failures, deleteStatus,
                   extracted, displayed, deletes,
                   ratePauses, pausedBefore, courtesySlept, throttleSlept, sortRuns>>

\* the DELETE request, the counters, the sleeps
DeleteTweet ==
    /\ pc = "delete"
    /\ IF ~ValidID(tweets[i + 1].id)
       THEN \* http.NewRequest failed: failures++; continue
            /\ deleteStatus' = "noreq"
            /\ failures' = failures + 1
            /\ UNCHANGED <<success, deletes, courtesySlept, throttleSlept>>
       ELSE /\ deleteStatus' \in Outcomes
            /\ deletes' = deletes + 1
            /\ IF deleteStatus' = "err"
               THEN \* httpClient.Do failed: failures++; continue
                    /\ failures' = failures + 1
                    /\ courtesySlept' = FALSE
                    /\ UNCHANGED <<success, throttleSlept>>
               ELSE \* a response: count it, sleep 15 minutes after a 429,
                    \* then time.Sleep(200 * time.Millisecond)
                    /\ IF DeleteSucceeded(deleteStatus')
                       THEN success' = success + 1 /\ UNCHANGED failures
                       ELSE failures' = failures + 1 /\ UNCHANGED success
                    /\ throttleSlept' = (deleteStatus' = "429")
                    /\ courtesySlept' = TRUE
    /\ pc' = "next"
    /\ UNCHANGED <<tweets, sortOrder, offset, limit, dryRun, response, i,
                   alreadyDeleted, checkStatus,
                   extracted, displayed, checks,
                   ratePauses, pausedBefore, sortRuns>>

\* a retry of the record whose DELETE was answered 429
NextRecordRetry429 ==
    /\ pc = "next"
    /\ i' = IF deleteStatus = "429" THEN i ELSE i + 1
    /\ checkStatus' = "none" /\ deleteStatus' = "none"
    /\ throttleSlept' = FALSE
    /\ pc' = "loop"
    /\ UNCHANGED <<tweets, sortOrder, offset, limit, dryRun, response,
                   success, failures, alreadyDeleted,
                   extracted, displayed, checks, deletes,
                   ratePauses, pausedBefore, courtesySlept, sortRuns>>

\* end of the loop body: the next record
NextRecord ==
    /\ pc = "next"
    /\ i' = i + 1
    /\ checkStatus' = "none" /\ deleteStatus' = "none"
    /\ throttleSlept' = FALSE
    /\ pc' = "loop"
    /\ UNCHANGED <<tweets, sortOrder, offset, limit, dryRun, response,
                   success, failures, alreadyDeleted,
                   extracted, displayed, checks, deletes,
                   ratePauses, pausedBefore, courtesySlept, sortRuns>>

Next ==
    \/ CheckExtracted
    \/ SortTweets
    \/ SelectTweets
    \/ DisplayTweets
    \/ ReadConfirmation
    \/ Decide
    \/ LoopHead
    \/ CheckTweet
    \/ DeleteTweet
    \/ NextRecord

Spec == Init /\ [][Next]_vars

(* ------------------- the two sort modes on one archive ----------------- *)
\* sortRuns holds the tweets slice of an "oldest" run and of a "newest" run
\* over the same extracted archive, each after its sort.Slice call.
InitSort ==
    /\ tweets \in SortArchives
    /\ sortOrder = "newest" /\ offset = 0 /\ limit = MaxLimit /\ dryRun = TRUE
    /\ InitLocals
    /\ sortRuns = [oldest |-> tweets, newest |-> tweets, done |-> {}]

SortRun(order) ==
    /\ order \notin sortRuns.done
    /\ \E sorted \in SortOutcomes(tweets, order) :
          sortRuns' = [sortRuns EXCEPT ![order] = sorted,
                                       !.done = sortRuns.done \cup {order}]
    /\ UNCHANGED <<tweets, sortOrder, offset, limit, dryRun, pc, response, i,
                   success, failures, alreadyDeleted, checkStatus, deleteStatus,
                   extracted, displayed, checks, deletes,
                   ratePauses, pausedBefore, courtesySlept, throttleSlept>>

SortOldestRun == SortRun("oldest")

SortNewestRun == SortRun("newest")

NextSort ==
    \/ SortOldestRun
    \/ SortNewestRun

SpecSort == InitSort /\ [][NextSort]_vars

(* ============================== properties ============================= *)
ExecutorPcs == {"loop", "check", "delete", "next", "done"}

NoRequests ==
    /\ checks = 0 /\ deletes = 0
    /\ success = 0 /\ failures = 0 /\ alreadyDeleted = 0
    /\ pc \notin ExecutorPcs

\* C1: a dry run ends after rendering the selection; it never enters the
\* deletion loop, sends no GET and no DELETE request, and leaves the three
\* counters at zero.
C1_DryRunNeverDeletes ==
    dryRun => /\ NoRequests
              /\ pc \notin {"confirm", "decide", "cancelled"}
              /\ (pc = "dryRunDone" => displayed = Len(tweets))

C1_Witness ==
    dryRun /\ pc = "dryRunDone" /\ Len(tweets) > 0 /\ displayed = Len(tweets)

\* C2 as stated: the run proceeds to the deletion loop exactly when the line
\* read from stdin, without its terminator, is y or Y; otherwise it is
\* cancelled and nothing is requested.
C2_ExactlyY ==
    [][pc = "decide" =>
         /\ (pc' = "loop" <=> Chomp(response) \in {<<"y">>, <<"Y">>})
         /\ (pc' # "loop" => pc' = "cancelled" /\ NoRequests')]_vars

\* a line that is one y or Y surrounded by nothing but white space
AffirmativeLine(s) ==
    \E k \in DOMAIN s :
        /\ s[k] \in {"y", "Y"}
        /\ \A j \in DOMAIN s \ {k} : s[j] \in {" ", "\n", "\t", "\r"}

\* C2 amended: the run proceeds to the deletion loop exactly when the line
\* read from stdin, with leading and trailing white space removed, is y or
\* Y; otherwise it is cancelled and nothing is requested.
C2_TrimmedY ==
    [][pc = "decide" =>
         /\ (pc' = "loop" <=> AffirmativeLine(response))
         /\ (pc' # "loop" => pc' = "cancelled" /\ NoRequests')]_vars

C2_Witness ==
    ~dryRun /\ pc = "loop" /\ i = 0 /\ response = <<"y">> /\ displayed > 0

\* C3: the rate-limit pause runs before the existence check of the record at
\* index i exactly when i > 0 and i is a multiple of 50, once each, whatever
\* the outcomes of the earlier records.
C3_PauseAtMultiplesOnly ==
    /\ pc \in {"check", "delete", "next"} =>
          /\ ratePauses = i \div rateLimit
          /\ (pausedBefore = i <=> (i > 0 /\ i % rateLimit = 0))
    /\ pc \in {"loop", "done"} =>
          ratePauses = (IF i = 0 THEN 0 ELSE (i - 1) \div rateLimit)
    /\ pc = "check" => checkStatus = "none" /\ checks <= i
    /\ pc \notin ExecutorPcs => ratePauses = 0

C3_Witness ==
    /\ pc = "check" /\ i = rateLimit
    /\ ratePauses = 1 /\ pausedBefore = i
    /\ success > 0 /\ failures > 0 /\ alreadyDeleted > 0

\* C4: when the existence check ends in anything but a 200 or a 404 (another
\* status, or a failed request), the record is taken as present: a DELETE
\* request follows and the record is not counted as already deleted.
C4_SoftFailureStillDeletes ==
    checkStatus \in {"429", "500", "err"} =>
        \/ pc = "delete"
        \/ pc = "next" /\ deleteStatus \in Outcomes

\* C5: a 404 from the existence check adds one to alreadyDeleted, ends the
\* iteration, and no DELETE request is sent for the record: the loop moves
\* on to the next index and never returns.
C5_NotFoundSkipsDelete ==
    /\ [](checkStatus = "404" => pc = "next" /\ deleteStatus = "none")
    /\ [][pc = "check" /\ checkStatus' = "404" =>
             /\ alreadyDeleted' = alreadyDeleted + 1
             /\ deletes' = deletes
             /\ success' = success /\ failures' = failures]_vars
    /\ [][checkStatus = "404" => deletes' = deletes /\ i' = i + 1]_vars
    /\ [][i' >= i]_vars

C5_Witness ==
    /\ pc = "next" /\ checkStatus = "404"
    /\ i = 1 /\ alreadyDeleted = 1 /\ deletes = 1

\* C6: a run with limit > 100 is rejected before the selection: it renders
\* nothing, and no selection of more than 100 records is rendered or deleted.
C6_LimitCapped ==
    /\ limit > MaxLimit => pc \in {"extracted", "noTweets", "sort", "select"}
    /\ displayed <= MaxLimit
    /\ pc \in ExecutorPcs => Len(tweets) <= MaxLimit

\* C7: with an offset at or beyond the number of extracted tweets the run
\* ends at the offset error (or at "No tweets found"): nothing is rendered
\* and nothing is requested.
C7_OffsetBeyondEnd ==
    offset >= extracted =>
        /\ pc \in {"extracted", "noTweets", "sort", "select", "rangeError"}
        /\ displayed = 0
        /\ NoRequests

AllParse(s) == \A k \in DOMAIN s : Parses(s[k].createdAt)

DistinctInstants(s) ==
    \A j, k \in DOMAIN s :
        j # k => ParseTime(s[j].createdAt) # ParseTime(s[k].createdAt)

BothSorted == sortRuns.done = {"oldest", "newest"}

\* C8 as stated: when every created_at parses, the "newest" result is the
\* reverse of the "oldest" result, equal instants included.
C8_NewestIsReverseOfOldest ==
    BothSorted /\ AllParse(tweets) => sortRuns.newest = Reverse(sortRuns.oldest)

\* C8 amended: when every created_at parses and no two records have the same
\* instant, the "newest" result is the reverse of the "oldest" result.
C8_ReverseWhenDistinct ==
    BothSorted /\ AllParse(tweets) /\ DistinctInstants(tweets) =>
        sortRuns.newest = Reverse(sortRuns.oldest)

C8_Witness ==
    /\ BothSorted /\ AllParse(tweets) /\ DistinctInstants(tweets)
    /\ Len(tweets) = 2
    /\ sortRuns.oldest # tweets
    /\ sortRuns.newest = Reverse(sortRuns.oldest)

\* C9: whenever a DELETE request is about to be sent and one was sent before
\* it, the 200ms sleep has run since that earlier request, whatever its
\* outcome.
C9_CourtesyBetweenDeletes ==
    pc = "delete" /\ deletes > 0 => courtesySlept

\* C10: the loop visits the records once each in order and gives each one
\* outcome: the counters sum to the number of records processed, every
\* record has at most one GET and one DELETE request, no record is retried,
\* and at the end the counters sum to the selection length.
C10_OneOutcomePerRecord ==
    /\ [](pc \in {"loop", "check", "delete"} =>
             success + failures + alreadyDeleted = i)
    /\ [](pc = "next" => success + failures + alreadyDeleted = i + 1)
    /\ [](pc = "done" =>
             i = Len(tweets) /\ success + failures + alreadyDeleted = Len(tweets))
    /\ [](pc \in ExecutorPcs =>
             /\ checks <= i + (IF pc \in {"delete", "next"} THEN 1 ELSE 0)
             /\ deletes <= i + (IF pc = "next" THEN 1 ELSE 0)
             /\ deletes <= checks)
    /\ [][checks' # checks =>
             checks' = checks + 1 /\ pc = "check" /\ checkStatus = "none"]_vars
    /\ [][deletes' # deletes =>
             deletes' = deletes + 1 /\ pc = "delete" /\ deleteStatus = "none"]_vars
    /\ [][i' # i => i' = i + 1 /\ pc = "next"]_vars
    /\ [][(pc \in ExecutorPcs) => UNCHANGED tweets]_vars

C10_Witness ==
    /\ pc = "done" /\ Len(tweets) = 2
    /\ success = 1 /\ failures = 1 /\ alreadyDeleted = 0
    /\ checks = 2 /\ deletes = 2

====
